---- MODULE Spec2Model ----
(***************************************************************************)
(* Model of the scope-based extraction engine of emerge's language         *)
(* parsers (src/emerge/languages): the VB.NET pipeline (file imports,      *)
(* scope extraction, entity registration), the C# pipeline (namespace,     *)
(* usings, entities), the comment filter, the token normalisation, the     *)
(* @import scan of the CSS parser and the import attachment of the CSS,    *)
(* SCSS and Twig parsers.                                                  *)
(***************************************************************************)
EXTENDS Integers, Sequences, FiniteSets, TLC

VARIABLES
    pc,                       \* position of the running pipeline
    exc,                      \* exception that escaped to the caller ("none" if none)
    results,                  \* parser registry self._results: insertion-ordered dict,
                              \* a sequence of records with their key
    hits, misses,             \* statistics PARSING_HITS / PARSING_MISSES of each analysis
    run_analysis,             \* the analysis the running call was given
    todo,                     \* filtered_results still to visit (keys)
    cur,                      \* key of the FileResult being scanned (`result`)
    words,                    \* filtered_list_no_comments
    index,                    \* index of the read-ahead generator (0-based)
    following,                \* the generator's `following`: [none, rest]
    previous_obj,             \* previous_obj of the outer scan
    found_entities,           \* found_entities: insertion-ordered dict, as a sequence of [name, tokens]
    entity_name,              \* parsing_result.entity_name of the running body scan
    all_tokens,               \* all_tokens of the running body scan
    iterTokens, iterNextTokens, scope_level,
    closed,                   \* the body scan left its loop through `break`
    created_entity_results,   \* return value of generate_entity_results_from_scopes
    filter_input, source_lines, line_no, active_block_comment,
    source_lines_without_comments,
                              \* _filter_source_tokens_without_comments, line by line
    file_content, mapping, first_tokens, second_tokens,
                              \* token normalisation: text, token map, first and second pass
    pending,                  \* the files the driver has still to hand to
                              \* generate_file_result_from_analysis: [key, tokens]
    import_lists              \* the list objects behind scanned_import_dependencies of
                              \* the CSS, SCSS and Twig records: a record holds the
                              \* position of its list

vars == <<pc, exc, results, hits, misses, run_analysis, todo, cur,
          words, index, following, previous_obj, found_entities, entity_name,
          all_tokens, iterTokens, iterNextTokens, scope_level, closed,
          created_entity_results,
          filter_input, source_lines, line_no, active_block_comment,
          source_lines_without_comments,
          file_content, mapping, first_tokens, second_tokens, pending,
          import_lists>>

scopeVars == <<words, index, following, previous_obj, found_entities, entity_name,
               all_tokens, iterTokens, iterNextTokens, scope_level, closed,
               created_entity_results>>
statVars == <<hits, misses>>
commentVars == <<filter_input, source_lines, line_no, active_block_comment,
                 source_lines_without_comments>>
normVars == <<file_content, mapping, first_tokens, second_tokens>>

---------------------------------------------------------------------------
(* Bounds of the model. *)

\* files are made of at most MaxStatements statements of the vocabulary
MaxStatements == 4
\* the comment filter is run on at most MaxLines lines
MaxLines == 4
\* the token normalisation is run on texts of at most MaxTextLen characters
MaxTextLen == 4

---------------------------------------------------------------------------
(* Tokens.  A token is a string; CharsOf spells it, so that Python's      *)
(* `keyword in token` and `str.startswith` are computed on characters.     *)

NL == "\n"

CLASS == "Class"
STRUCT == "Structure"
INTERFACE == "Interface"
ENUM == "Enum"
NAMESPACE == "Namespace"
IMPORT == "Imports"
CLOSE_SCOPE == "End"
SUB == "Sub"
FUNCTION == "Function"
IF_KW == "If"
INLINE_COMMENT == "'"
START_BLOCK_COMMENT == "''"
STOP_BLOCK_COMMENT == "''"
INHERITANCE == "Inherits"

CharsOf ==
    [t \in {CLASS, STRUCT, INTERFACE, ENUM, NAMESPACE, IMPORT, CLOSE_SCOPE, SUB,
            FUNCTION, IF_KW, INLINE_COMMENT, START_BLOCK_COMMENT, INHERITANCE,
            NL, "Foo", "Bar", "(", "MyClass", "x", "'c", "#Region", "{", "}",
            "class", "struct", "interface", "enum", "namespace", "using", ":", ";",
            "//", "/*", "*/", "A.B", "C", "N", "int", "static"} |->
        CASE t = "Class"     -> <<"C","l","a","s","s">>
          [] t = "Structure" -> <<"S","t","r","u","c","t","u","r","e">>
          [] t = "Interface" -> <<"I","n","t","e","r","f","a","c","e">>
          [] t = "Enum"      -> <<"E","n","u","m">>
          [] t = "Namespace" -> <<"N","a","m","e","s","p","a","c","e">>
          [] t = "Imports"   -> <<"I","m","p","o","r","t","s">>
          [] t = "End"       -> <<"E","n","d">>
          [] t = "Sub"       -> <<"S","u","b">>
          [] t = "Function"  -> <<"F","u","n","c","t","i","o","n">>
          [] t = "If"        -> <<"I","f">>
          [] t = "'"         -> <<"'">>
          [] t = "''"        -> <<"'","'">>
          [] t = "Inherits"  -> <<"I","n","h","e","r","i","t","s">>
          [] t = "\n"        -> <<"\n">>
          [] t = "Foo"       -> <<"F","o","o">>
          [] t = "Bar"       -> <<"B","a","r">>
          [] t = "("         -> <<"(">>
          [] t = "MyClass"   -> <<"M","y","C","l","a","s","s">>
          [] t = "x"         -> <<"x">>
          [] t = "'c"        -> <<"'","c">>
          [] t = "#Region"   -> <<"#","R","e","g","i","o","n">>
          [] t = "{"         -> <<"{">>
          [] t = "}"         -> <<"}">>
          [] t = "class"     -> <<"c","l","a","s","s">>
          [] t = "struct"    -> <<"s","t","r","u","c","t">>
          [] t = "interface" -> <<"i","n","t","e","r","f","a","c","e">>
          [] t = "enum"      -> <<"e","n","u","m">>
          [] t = "namespace" -> <<"n","a","m","e","s","p","a","c","e">>
          [] t = "using"     -> <<"u","s","i","n","g">>
          [] t = ":"         -> <<":">>
          [] t = ";"         -> <<";">>
          [] t = "//"        -> <<"/","/">>
          [] t = "/*"        -> <<"/","*">>
          [] t = "*/"        -> <<"*","/">>
          [] t = "A.B"       -> <<"A",".","B">>
          [] t = "C"         -> <<"C">>
          [] t = "N"         -> <<"N">>
          [] t = "int"       -> <<"i","n","t">>
          [] t = "static"    -> <<"s","t","a","t","i","c">>]

TokenUniverse == DOMAIN CharsOf

\* pp.alphanums + '_'
AlnumChars ==
    {"A","B","C","D","E","F","G","H","I","J","K","L","M","N","O","P","Q","R","S","T",
     "U","V","W","X","Y","Z","a","b","c","d","e","f","g","h","i","j","k","l","m","n",
     "o","p","q","r","s","t","u","v","w","x","y","z","0","1","2","3","4","5","6","7",
     "8","9","_"}

\* s[i:i+len(p)] == p   (i is 1-based)
MatchesAt(p, s, i) ==
    /\ i + Len(p) - 1 <= Len(s)
    /\ \A j \in 1..Len(p) : s[i + j - 1] = p[j]

\* Python's `p in s` on strings
IsSubstring(p, s) == \E i \in 1..(Len(s) + 1) : MatchesAt(p, s, i)

\* Python's s.startswith(p)
StartsWith(s, p) == MatchesAt(p, s, 1)

\* `keyword in token`, tabulated once over the tokens of the model
KeywordIn ==
    [k \in TokenUniverse, t \in TokenUniverse |-> IsSubstring(CharsOf[k], CharsOf[t])]

\* any(keyword in token for keyword in keywords)
AnyKeywordIn(keywords, token) ==
    /\ token \in TokenUniverse
    /\ \E k \in keywords : KeywordIn[k, token]

entity_keywords == {CLASS, STRUCT, INTERFACE, ENUM}

\* the keyword list of the body scan (lines 349-356 and 359-366)
scope_keywords == {NAMESPACE, CLASS, STRUCT, INTERFACE, ENUM, FUNCTION, SUB, IF_KW}

\* the keyword list that stops the entity's import scan (lines 209-213)
import_stop_keywords == {NAMESPACE, CLASS, STRUCT, INTERFACE, ENUM}

ignore_entity_keywords ==
    {"Class", "Structure", "Interface", "Enum", "Namespace", "Imports", "Public",
     "Private", "Protected", "Friend", "Static", "ReadOnly", "Overridable",
     "MustOverride", "NotOverridable", "Shadows", "New", "Me", "MyBase", "Event",
     "Delegate", "Operator", "Implicit", "Explicit"}

---------------------------------------------------------------------------
(* Insertion-ordered dictionaries (Python dict), as sequences of records   *)
(* with a field `key`.                                                     *)

DictKeys(d) == {d[i].key : i \in 1..Len(d)}

DictPos(d, k) == CHOOSE i \in 1..Len(d) : d[i].key = k

DictGet(d, k) == d[DictPos(d, k)]

\* d[k] = v : an existing key keeps its position, a new key goes last
DictSet(d, k, v) ==
    IF k \in DictKeys(d) THEN [d EXCEPT ![DictPos(d, k)] = v] ELSE Append(d, v)

---------------------------------------------------------------------------
(* The read-ahead generator and the read-ahead string.                     *)

\* no `following` yet: Python's None
NoFollowing == [none |-> TRUE, rest |-> <<>>]

\* list_of_words[index + 1:]  (index is 0-based)
TokensAfter(list_of_words, idx) == SubSeq(list_of_words, idx + 2, Len(list_of_words))

\* `following` as yielded with index idx, prev being its value from the yield before
GenFollowing(list_of_words, idx, prev) ==
    IF idx < Len(list_of_words) - 1
    THEN [none |-> FALSE, rest |-> TokensAfter(list_of_words, idx)]
    ELSE prev

\* create_read_ahead_string: [obj] + following raises TypeError on None; the string
\* " ".join(read_ahead) is kept as the list of its space-separated tokens
ReadAheadRaises(fol) == fol.none

create_read_ahead_string(obj, fol) == <<obj>> \o fol.rest

\* s.split('\n')[0].strip().split(' ') of a read-ahead string
RECURSIVE FirstLine(_)
FirstLine(read_ahead) ==
    IF read_ahead = <<>> \/ Head(read_ahead) = NL
    THEN <<>>
    ELSE <<Head(read_ahead)>> \o FirstLine(Tail(read_ahead))

\* import_name.split(' ')[1] raises IndexError when the first line has one word
ImportNameRaises(read_ahead) == Len(FirstLine(read_ahead)) < 2

ImportName(read_ahead) == FirstLine(read_ahead)[2]

---------------------------------------------------------------------------
(* The header grammar: Keyword(Class|Structure|Interface|Enum) + Word.     *)

\* the longest leading run of characters of pp.alphanums + '_'
RECURSIVE WordPrefix(_)
WordPrefix(chars) ==
    IF chars = <<>> \/ Head(chars) \notin AlnumChars
    THEN <<>>
    ELSE <<Head(chars)>> \o WordPrefix(Tail(chars))

\* pyparsing skips white space, newlines included, before each element
RECURSIVE SkipNewlines(_)
SkipNewlines(tokens) ==
    IF tokens # <<>> /\ Head(tokens) = NL THEN SkipNewlines(Tail(tokens)) ELSE tokens

\* entity_expression.parseString(read_ahead_string): [ok, entity_name];
\* ok = FALSE is pp.ParseException
ParseHeader(read_ahead) ==
    LET rest == SkipNewlines(Tail(read_ahead))
        word == IF rest = <<>> THEN <<>> ELSE WordPrefix(CharsOf[Head(rest)])
    IN  IF Head(read_ahead) \in entity_keywords /\ word # <<>>
        THEN [ok |-> TRUE,
              entity_name |-> CHOOSE t \in TokenUniverse : CharsOf[t] = word]
        ELSE [ok |-> FALSE, entity_name |-> ""]

---------------------------------------------------------------------------
(* _filter_source_tokens_without_comments.  The string " ".join(words) is  *)
(* kept as the list of its lines, a line as the list of its words.         *)

\* the words before the first newline token
RECURSIVE LineHead(_)
LineHead(list_of_words) ==
    IF list_of_words = <<>> \/ Head(list_of_words) = NL
    THEN <<>>
    ELSE <<Head(list_of_words)>> \o LineHead(Tail(list_of_words))

\* the words after the first newline token
RECURSIVE LineRest(_)
LineRest(list_of_words) ==
    IF list_of_words = <<>> THEN <<>>
    ELSE IF Head(list_of_words) = NL THEN Tail(list_of_words)
    ELSE LineRest(Tail(list_of_words))

\* " ".join(list_of_words).splitlines(): a newline ends a line, and no empty
\* line is reported after the last newline
RECURSIVE SplitLines(_)
SplitLines(list_of_words) ==
    IF list_of_words = <<>> THEN <<>>
    ELSE <<LineHead(list_of_words)>> \o SplitLines(LineRest(list_of_words))

\* line.strip(), as characters: the words of the line with one space between
RECURSIVE LineChars(_)
LineChars(line) ==
    IF line = <<>> THEN <<>>
    ELSE IF Len(line) = 1 THEN CharsOf[line[1]]
    ELSE CharsOf[line[1]] \o <<" ">> \o LineChars(Tail(line))

RegionChars == <<"#","R","e","g","i","o","n">>
EndRegionChars == <<"#","E","n","d"," ","R","e","g","i","o","n">>

\* one pass of the loop body (lines 246-261) on one line:
\* the new block-comment state and whether the line is appended
FilterLine(line, active, line_comment_string, start_comment_string, stop_comment_string) ==
    LET stripped == LineChars(line) IN
    IF StartsWith(stripped, RegionChars) \/ StartsWith(stripped, EndRegionChars)
    THEN [active |-> active, keep |-> FALSE]
    ELSE IF StartsWith(stripped, CharsOf[start_comment_string])
    THEN [active |-> TRUE, keep |-> FALSE]
    ELSE IF StartsWith(stripped, CharsOf[stop_comment_string])
    THEN [active |-> FALSE, keep |-> FALSE]
    ELSE IF StartsWith(stripped, CharsOf[line_comment_string])
    THEN [active |-> active, keep |-> FALSE]
    ELSE [active |-> active, keep |-> ~active]

\* the loop of lines 246-261 from line i on
RECURSIVE FilterLines(_, _, _, _, _, _)
FilterLines(lines, i, active, lc, start, stop) ==
    IF i > Len(lines) THEN <<>>
    ELSE LET r == FilterLine(lines[i], active, lc, start, stop)
         IN  (IF r.keep THEN <<lines[i]>> ELSE <<>>)
                 \o FilterLines(lines, i + 1, r.active, lc, start, stop)

\* "\n".join(lines), tokenised again by r'\S+|\n'
RECURSIVE JoinLines(_)
JoinLines(lines) ==
    IF lines = <<>> THEN <<>>
    ELSE IF Len(lines) = 1 THEN lines[1]
    ELSE lines[1] \o <<NL>> \o JoinLines(Tail(lines))

\* the words of the string _filter_source_tokens_without_comments returns
filter_source_tokens_without_comments(list_of_words, lc, start, stop) ==
    JoinLines(FilterLines(SplitLines(list_of_words), 1, FALSE, lc, start, stop))

\* source.replace("{}", "").replace("{ }", ""): an opening brace directly followed
\* by a closing one goes, left to right, once
RECURSIVE RemoveEmptyScopes(_)
RemoveEmptyScopes(tokens) ==
    IF Len(tokens) < 2 THEN tokens
    ELSE IF tokens[1] = "{" /\ tokens[2] = "}" THEN RemoveEmptyScopes(Tail(Tail(tokens)))
    ELSE <<Head(tokens)>> \o RemoveEmptyScopes(Tail(tokens))

---------------------------------------------------------------------------
(* Result records and the directive scans.                                 *)

Analyses == {1, 2}

FileResult(key, analysis, tokens) ==
    [key |-> key, kind |-> "file", analysis |-> analysis,
     scanned_tokens |-> tokens,
     scanned_import_dependencies |-> <<>>,
     scanned_inheritance_dependencies |-> <<>>,
     module_name |-> "", entity_name |-> "", parent_file_result |-> ""]

\* the EntityResult built at lines 381-395
EntityResult(file, name, tokens) ==
    [key |-> name, kind |-> "entity", analysis |-> file.analysis,
     scanned_tokens |-> tokens,
     scanned_import_dependencies |-> <<>>,
     scanned_inheritance_dependencies |-> <<>>,
     module_name |-> file.module_name, entity_name |-> name,
     parent_file_result |-> file.key]

\* the loop of _add_imports_to_file_results over one file (lines 278-285), from
\* index idx on: the names appended to scanned_import_dependencies
RECURSIVE FileImportScan(_, _, _)
FileImportScan(tokens, idx, prev) ==
    IF idx >= Len(tokens) THEN <<>>
    ELSE LET obj == tokens[idx + 1]
             fol == GenFollowing(tokens, idx, prev)
             read_ahead == create_read_ahead_string(obj, fol)
         IN  (IF obj = IMPORT /\ ~ReadAheadRaises(fol) /\ ~ImportNameRaises(read_ahead)
              THEN <<ImportName(read_ahead)>>
              ELSE <<>>)
                 \o FileImportScan(tokens, idx + 1, fol)

\* the loop of _add_imports_to_single_entity_result (lines 200-214)
RECURSIVE EntityImportScan(_, _, _)
EntityImportScan(tokens, idx, prev) ==
    IF idx >= Len(tokens) THEN <<>>
    ELSE LET obj == tokens[idx + 1]
             fol == GenFollowing(tokens, idx, prev)
             read_ahead == create_read_ahead_string(obj, fol)
         IN  IF obj = IMPORT
             THEN (IF ~ReadAheadRaises(fol) /\ ~ImportNameRaises(read_ahead)
                   THEN <<ImportName(read_ahead)>>
                   ELSE <<>>)
                      \o EntityImportScan(tokens, idx + 1, fol)
             ELSE IF AnyKeywordIn(import_stop_keywords, obj)
             THEN <<>>
             ELSE EntityImportScan(tokens, idx + 1, fol)

add_imports_to_single_entity_result(entity_result, tokens) ==
    [entity_result EXCEPT !.scanned_import_dependencies =
         @ \o EntityImportScan(tokens, 0, NoFollowing)]

\* the loop with the Inherits token itself taken as the parent
RECURSIVE ParentNameOfMarker(_, _, _)
ParentNameOfMarker(tokens, i, classOrInterfaceName) ==
    IF i > Len(tokens) THEN ""
    ELSE LET current_token == tokens[i]
             next_token == IF i < Len(tokens) THEN tokens[i + 1] ELSE ""
             name == IF AnyKeywordIn({CLASS, INTERFACE}, current_token)
                     THEN next_token ELSE classOrInterfaceName
         IN  IF current_token = INHERITANCE /\ name # ""
             THEN current_token
             ELSE ParentNameOfMarker(tokens, i + 1, name)

\* the loop of _add_inheritance_to_entity_result (lines 219-227): parent_name
RECURSIVE ParentName(_, _, _)
ParentName(tokens, i, classOrInterfaceName) ==
    IF i > Len(tokens) THEN ""
    ELSE LET current_token == tokens[i]
             next_token == IF i < Len(tokens) THEN tokens[i + 1] ELSE ""
             name == IF AnyKeywordIn({CLASS, INTERFACE}, current_token)
                     THEN next_token ELSE classOrInterfaceName
         IN  IF current_token = INHERITANCE /\ name # ""
             THEN next_token
             ELSE ParentName(tokens, i + 1, name)

add_inheritance_to_entity_result(result) ==
    LET parent_name == ParentName(result.scanned_tokens, 1, "")
    IN  IF parent_name # ""
        THEN [result EXCEPT !.scanned_inheritance_dependencies = Append(@, parent_name)]
        ELSE result

---------------------------------------------------------------------------
(* The VB.NET pipeline of an analysis.                                     *)

RECURSIVE Concat(_)
Concat(seqs) == IF seqs = <<>> THEN <<>> ELSE Head(seqs) \o Concat(Tail(seqs))

\* the statements the files of the model are made of
Statements ==
    {<<CLASS, "Foo">>, <<CLOSE_SCOPE, CLASS>>, <<SUB>>, <<CLOSE_SCOPE, SUB>>,
     <<NL>>, <<CLASS>>, <<"(">>, <<IMPORT, "Bar">>}

FileKey == "a.vb"

\* what every specification leaves alone outside its own part
IdleScope ==
    /\ words = <<>> /\ index = 0 /\ following = NoFollowing /\ previous_obj = ""
    /\ found_entities = <<>> /\ entity_name = "" /\ all_tokens = <<>>
    /\ iterTokens = 0 /\ iterNextTokens = 0 /\ scope_level = 0 /\ closed = FALSE
    /\ created_entity_results = <<>>

IdlePipeline ==
    /\ exc = "none" /\ results = <<>> /\ run_analysis = 1 /\ todo = <<>> /\ cur = ""
    /\ pending = <<>> /\ import_lists = <<>>
    /\ hits = [a \in Analyses |-> 0] /\ misses = [a \in Analyses |-> 0]
    /\ IdleScope

IdleComment ==
    /\ filter_input = <<>> /\ source_lines = <<>> /\ line_no = 0 /\ active_block_comment = FALSE
    /\ source_lines_without_comments = <<>>

IdleNorm ==
    /\ file_content = <<>> /\ mapping = "" /\ first_tokens = <<>> /\ second_tokens = <<>>

\* one file of analysis 1, registered by generate_file_result_from_analysis
Init ==
    /\ pc = "file_results"
    /\ exc = "none"
    /\ \E n \in 0..MaxStatements : \E ss \in [1..n -> Statements] :
           results = <<FileResult(FileKey, 1, Concat(ss))>>
    /\ hits = [a \in Analyses |-> 0]
    /\ misses = [a \in Analyses |-> 0]
    /\ run_analysis = 1
    /\ todo = <<>>
    /\ cur = ""
    /\ pending = <<>>
    /\ import_lists = <<>>
    /\ IdleScope
    /\ IdleComment
    /\ IdleNorm

\* after_generated_file_results -> _add_imports_to_file_results (lines 271-285)
add_imports_to_file_results(res, analysis) ==
    [i \in 1..Len(res) |->
        IF res[i].analysis = analysis /\ res[i].kind = "file"
        THEN [res[i] EXCEPT !.scanned_import_dependencies =
                  @ \o FileImportScan(res[i].scanned_tokens, 0, NoFollowing)]
        ELSE res[i]]

AfterGeneratedFileResults ==
    /\ pc = "file_results"
    /\ results' = add_imports_to_file_results(results, run_analysis)
    /\ pc' = "file_imports"
    /\ UNCHANGED <<exc, statVars, run_analysis, todo, cur, scopeVars, commentVars, normVars, pending, import_lists>>

\* filtered_results of generate_entity_results_from_analysis (line 148)
FilteredResults(res, analysis) ==
    SelectSeq(res, LAMBDA v : v.kind = "file")

\* generate_entity_results_from_analysis, lines 146-150
GenerateEntityResults ==
    /\ pc = "file_imports"
    /\ todo' = [i \in 1..Len(FilteredResults(results, run_analysis)) |->
                   FilteredResults(results, run_analysis)[i].key]
    /\ pc' = "next_file"
    /\ UNCHANGED <<exc, results, statVars, run_analysis, cur, scopeVars, commentVars, normVars, pending, import_lists>>

\* lines 313-321: the words the scan runs over
ScopeWords(tokens) ==
    RemoveEmptyScopes(
        filter_source_tokens_without_comments(
            tokens, INLINE_COMMENT, START_BLOCK_COMMENT, STOP_BLOCK_COMMENT))

\* generate_entity_results_from_scopes, lines 302-323, for the next file
StartScopes ==
    /\ pc = "next_file"
    /\ todo # <<>>
    /\ cur' = Head(todo)
    /\ todo' = Tail(todo)
    /\ words' = ScopeWords(DictGet(results, Head(todo)).scanned_tokens)
    /\ index' = 0
    /\ following' = NoFollowing
    /\ previous_obj' = ""
    /\ found_entities' = <<>>
    /\ created_entity_results' = <<>>
    /\ pc' = "scan"
    /\ UNCHANGED <<exc, results, statVars, run_analysis, entity_name, all_tokens,
                   iterTokens, iterNextTokens, scope_level, closed, commentVars, normVars, pending, import_lists>>

\* the loop over the files is over
Finish ==
    /\ pc = "next_file"
    /\ todo = <<>>
    /\ pc' = "done"
    /\ UNCHANGED <<exc, results, statVars, run_analysis, todo, cur, scopeVars,
                   commentVars, normVars, pending, import_lists>>

---------------------------------------------------------------------------
(* generate_entity_results_from_scopes: the outer scan (lines 323-337, 377) *)

\* `result`, the FileResult being scanned
CurFile == DictGet(results, cur)

\* the generator has a word left to yield
Yielding == pc = "scan" /\ index < Len(words)

\* obj and following of the running iteration
Obj == words[index + 1]
Fol == GenFollowing(words, index, following)

\* a candidate test that forgets the scope closer
IsCandidateAfterCloser(obj, prev) == obj \in entity_keywords

\* line 325
IsCandidate(obj, prev) == obj \in entity_keywords /\ prev # CLOSE_SCOPE

Increment(counter, analysis) == [counter EXCEPT ![analysis] = @ + 1]

\* the word starts no entity: line 377 and the next word
ScanSkip ==
    /\ Yielding
    /\ ~IsCandidate(Obj, previous_obj)
    /\ previous_obj' = Obj
    /\ following' = Fol
    /\ index' = index + 1
    /\ UNCHANGED <<pc, exc, results, statVars, run_analysis, todo, cur, words,
                   found_entities, entity_name, all_tokens, iterTokens, iterNextTokens,
                   scope_level, closed, created_entity_results, commentVars, normVars, pending, import_lists>>

\* line 326 with following = None: the TypeError of [obj] + None leaves the call
HeaderRaise ==
    /\ Yielding
    /\ IsCandidate(Obj, previous_obj)
    /\ ReadAheadRaises(Fol)
    /\ exc' = "TypeError"
    /\ pc' = "raised"
    /\ following' = Fol
    /\ UNCHANGED <<results, statVars, run_analysis, todo, cur, words, index, previous_obj,
                   found_entities, entity_name, all_tokens, iterTokens, iterNextTokens,
                   scope_level, closed, created_entity_results, commentVars, normVars, pending, import_lists>>

\* a rejected header that is not counted
HeaderMissUncounted ==
    /\ Yielding
    /\ IsCandidate(Obj, previous_obj)
    /\ ~ReadAheadRaises(Fol)
    /\ ~ParseHeader(create_read_ahead_string(Obj, Fol)).ok
    /\ following' = Fol
    /\ index' = index + 1
    /\ UNCHANGED <<pc, exc, results, hits, misses, run_analysis, todo, cur, words,
                   previous_obj, found_entities, entity_name, all_tokens, iterTokens,
                   iterNextTokens, scope_level, closed, created_entity_results,
                   commentVars, normVars, pending, import_lists>>

\* lines 328-334: pp.ParseException, a miss, `continue` (line 377 is not run)
HeaderMiss ==
    /\ Yielding
    /\ IsCandidate(Obj, previous_obj)
    /\ ~ReadAheadRaises(Fol)
    /\ ~ParseHeader(create_read_ahead_string(Obj, Fol)).ok
    /\ misses' = Increment(misses, CurFile.analysis)
    /\ following' = Fol
    /\ index' = index + 1
    /\ UNCHANGED <<pc, exc, results, hits, run_analysis, todo, cur, words, previous_obj,
                   found_entities, entity_name, all_tokens, iterTokens, iterNextTokens,
                   scope_level, closed, created_entity_results, commentVars, normVars, pending, import_lists>>

\* lines 336-345: a hit; the body scan starts on [obj] + following
HeaderHit ==
    /\ Yielding
    /\ IsCandidate(Obj, previous_obj)
    /\ ~ReadAheadRaises(Fol)
    /\ LET parsing_result == ParseHeader(create_read_ahead_string(Obj, Fol)) IN
       /\ parsing_result.ok
       /\ entity_name' = parsing_result.entity_name
       /\ found_entities' = DictSet(found_entities, parsing_result.entity_name,
                                    [key |-> parsing_result.entity_name, tokens |-> <<>>])
    /\ hits' = Increment(hits, CurFile.analysis)
    /\ scope_level' = 0
    /\ all_tokens' = <<Obj>> \o Fol.rest
    /\ iterTokens' = 0
    /\ iterNextTokens' = 0
    /\ closed' = FALSE
    /\ following' = Fol
    /\ pc' = "body"
    /\ UNCHANGED <<exc, results, misses, run_analysis, todo, cur, words, index,
                   previous_obj, created_entity_results, commentVars, normVars, pending, import_lists>>

---------------------------------------------------------------------------
(* generate_entity_results_from_scopes: the body scan (lines 346-376)      *)

\* all_tokens[1:] + [""]
following_tokens == Tail(all_tokens) \o <<"">>

\* the while condition of line 346
BodyLoopRuns == iterTokens < Len(all_tokens) /\ iterNextTokens < Len(following_tokens)

\* list[i] of Python for i >= 0: IndexError past the end
InRange(list, i) == i + 1 \in DOMAIN list

\* lines 349-357: the depth after the opening test of `token`
LevelAfterOpen(level, token) ==
    IF AnyKeywordIn(scope_keywords, token) THEN level + 1 ELSE level

\* line 359: `token` and `next_token` close a scope
ClosesScope(token, next_token) ==
    token = CLOSE_SCOPE /\ AnyKeywordIn(scope_keywords, next_token)

\* a closing pass that forgets to move on
AdvanceStuck(closes) == IF closes THEN 0 ELSE 1

\* lines 370-371 and 375-376: how far one pass moves both indexes
Advance(closes) == IF closes THEN 3 ELSE 1

\* found_entities[name].append(token) (lines 373-374)
AppendToken(found, name, token) ==
    IF name \in DictKeys(found)
    THEN [found EXCEPT ![DictPos(found, name)].tokens = Append(@, token)]
    ELSE found

\* one pass of the while loop that does not leave it
BodyStep ==
    /\ pc = "body"
    /\ BodyLoopRuns
    /\ IF InRange(all_tokens, iterTokens) /\ InRange(following_tokens, iterNextTokens)
       THEN LET token == all_tokens[iterTokens + 1]
                next_token == following_tokens[iterNextTokens + 1]
                opened == LevelAfterOpen(scope_level, token)
                closes == ClosesScope(token, next_token)
                level == IF closes THEN opened - 1 ELSE opened
            IN  /\ ~(closes /\ level = 0)
                /\ scope_level' = level
                /\ found_entities' = AppendToken(found_entities, entity_name, token)
                /\ iterTokens' = iterTokens + Advance(closes)
                /\ iterNextTokens' = iterNextTokens + Advance(closes)
                /\ UNCHANGED <<pc, exc>>
       ELSE /\ exc' = "IndexError"
            /\ pc' = "raised"
            /\ UNCHANGED <<scope_level, found_entities, iterTokens, iterNextTokens>>
    /\ UNCHANGED <<results, statVars, run_analysis, todo, cur, words, index, following,
                   previous_obj, entity_name, all_tokens, closed,
                   created_entity_results, commentVars, normVars, pending, import_lists>>

\* lines 367-369: the depth is back at zero, `break`
BodyBreak ==
    /\ pc = "body"
    /\ BodyLoopRuns
    /\ InRange(all_tokens, iterTokens) /\ InRange(following_tokens, iterNextTokens)
    /\ LET token == all_tokens[iterTokens + 1]
           next_token == following_tokens[iterNextTokens + 1]
       IN  /\ ClosesScope(token, next_token)
           /\ LevelAfterOpen(scope_level, token) - 1 = 0
           /\ scope_level' = LevelAfterOpen(scope_level, token) - 1
    /\ closed' = TRUE
    /\ pc' = "scanned"
    /\ UNCHANGED <<exc, results, statVars, run_analysis, todo, cur, words, index,
                   following, previous_obj, found_entities, entity_name, all_tokens,
                   iterTokens, iterNextTokens, created_entity_results,
                   commentVars, normVars, pending, import_lists>>

\* the while condition fails: the words ran out before the depth came back to zero
BodyExhaust ==
    /\ pc = "body"
    /\ ~BodyLoopRuns
    /\ closed' = FALSE
    /\ pc' = "scanned"
    /\ UNCHANGED <<exc, results, statVars, run_analysis, todo, cur, words, index,
                   following, previous_obj, found_entities, entity_name, all_tokens,
                   iterTokens, iterNextTokens, scope_level, created_entity_results,
                   commentVars, normVars, pending, import_lists>>

\* line 377 after a body scan, and the next word
AfterBody ==
    /\ pc = "scanned"
    /\ previous_obj' = Obj
    /\ index' = index + 1
    /\ pc' = "scan"
    /\ UNCHANGED <<exc, results, statVars, run_analysis, todo, cur, words, following,
                   found_entities, entity_name, all_tokens, iterTokens, iterNextTokens,
                   scope_level, closed, created_entity_results, commentVars, normVars, pending, import_lists>>

---------------------------------------------------------------------------
(* The entity records (lines 379-398) and their registration (180-191).    *)

\* lines 379-398: one EntityResult per entry of found_entities
ReturnEntityResults ==
    /\ pc = "scan"
    /\ index >= Len(words)
    /\ created_entity_results' =
           [i \in 1..Len(found_entities) |->
               EntityResult(CurFile, found_entities[i].key, found_entities[i].tokens)]
    /\ pc' = "scopes_returned"
    /\ UNCHANGED <<exc, results, statVars, run_analysis, todo, cur, words, index,
                   following, previous_obj, found_entities, entity_name, all_tokens,
                   iterTokens, iterNextTokens, scope_level, closed, commentVars, normVars, pending, import_lists>>

\* a filter that keeps every entity
ValidEntityResultsUnfiltered(unfiltered, scanned_source_code) ==
    [i \in 1..Len(unfiltered) |->
        add_imports_to_single_entity_result(unfiltered[i], scanned_source_code)]

\* lines 181-186: the entities kept, each with the imports of the file's words
ValidEntityResults(unfiltered, scanned_source_code) ==
    LET kept == SelectSeq(unfiltered,
                          LAMBDA e : e.entity_name \notin ignore_entity_keywords)
    IN  [i \in 1..Len(kept) |->
            add_imports_to_single_entity_result(kept[i], scanned_source_code)]

\* a registration that keeps the record a name already has
RECURSIVE StoreEntityResultsKeepFirst(_, _)
StoreEntityResultsKeepFirst(res, entity_results) ==
    IF entity_results = <<>> THEN res
    ELSE StoreEntityResultsKeepFirst(
             IF Head(entity_results).entity_name \in DictKeys(res)
             THEN res
             ELSE Append(res, add_inheritance_to_entity_result(Head(entity_results))),
             Tail(entity_results))

\* lines 189-191: self._results[entity_result.entity_name] = entity_result, in order
RECURSIVE StoreEntityResults(_, _)
StoreEntityResults(res, entity_results) ==
    IF entity_results = <<>> THEN res
    ELSE StoreEntityResults(
             DictSet(res, Head(entity_results).entity_name,
                     add_inheritance_to_entity_result(Head(entity_results))),
             Tail(entity_results))

\* a registration in which the file's import list takes the imports of its entities
RegisterEntitiesIntoFile ==
    /\ pc = "scopes_returned"
    /\ LET valid == ValidEntityResults(created_entity_results, CurFile.scanned_tokens)
           shared == [results EXCEPT
                         ![DictPos(results, cur)].scanned_import_dependencies =
                              @ \o Concat([i \in 1..Len(valid) |->
                                              valid[i].scanned_import_dependencies])]
       IN  results' = StoreEntityResults(shared, valid)
    /\ pc' = "next_file"
    /\ UNCHANGED <<exc, statVars, run_analysis, todo, cur, scopeVars, commentVars, normVars,
                   pending, import_lists>>

\* lines 180-191 for the entities the scope extraction returned
RegisterEntities ==
    /\ pc = "scopes_returned"
    /\ results' = StoreEntityResults(
                      results,
                      ValidEntityResults(created_entity_results, CurFile.scanned_tokens))
    /\ pc' = "next_file"
    /\ UNCHANGED <<exc, statVars, run_analysis, todo, cur, scopeVars, commentVars, normVars, pending, import_lists>>

Next ==
    \/ AfterGeneratedFileResults
    \/ GenerateEntityResults
    \/ StartScopes
    \/ ScanSkip
    \/ HeaderRaise
    \/ HeaderMiss
    \/ HeaderHit
    \/ BodyStep
    \/ BodyBreak
    \/ BodyExhaust
    \/ AfterBody
    \/ ReturnEntityResults
    \/ RegisterEntities
    \/ Finish

Spec == Init /\ [][Next]_vars

---------------------------------------------------------------------------
(* Properties of the scope extraction.                                     *)

\* The `End` that closes the scope opened by tokens[1], found with a stack of the
\* opened kinds: its position, or 0 when some scope is not closed by its own
\* `End <kind>`.
RECURSIVE MatchingEnd(_, _, _)
MatchingEnd(tokens, i, stack) ==
    IF i > Len(tokens) THEN 0
    ELSE IF tokens[i] = CLOSE_SCOPE /\ i < Len(tokens) /\ tokens[i + 1] \in scope_keywords
    THEN IF stack = <<>> \/ Head(stack) # tokens[i + 1] THEN 0
         ELSE IF Len(stack) = 1 THEN i
         ELSE MatchingEnd(tokens, i + 2, Tail(stack))
    ELSE IF tokens[i] \in scope_keywords
    THEN MatchingEnd(tokens, i + 1, <<tokens[i]>> \o stack)
    ELSE MatchingEnd(tokens, i + 1, stack)

\* the own matching End of the entity whose body scan is running or just ended
OwnEnd == MatchingEnd(all_tokens, 1, <<>>)

\* a name that is no keyword of the language
IsPlainName(name) ==
    name \notin ignore_entity_keywords \cup scope_keywords \cup {CLOSE_SCOPE, INHERITANCE}

\* C1: on balanced input the body scan of a matched entity stops with depth zero at
\* the entity's own matching End.
C1_BalancedScanStopsAtOwnEnd ==
    (pc = "scanned" /\ IsPlainName(entity_name) /\ OwnEnd # 0)
        => (closed /\ scope_level = 0 /\ iterTokens + 1 = OwnEnd)

\* C2: an opened entity without a matching closer is reported as a miss and no
\* entity is recorded for it.
C2_UnclosedEntityIsMiss ==
    [][(pc = "body" /\ pc' = "scanned" /\ IsPlainName(entity_name) /\ OwnEnd = 0)
          => /\ misses'[CurFile.analysis] = misses[CurFile.analysis] + 1
             /\ entity_name \notin DictKeys(found_entities')]_vars

\* C3: every pass of the body-scan loop moves the token index forward by at least
\* one, no index reads past the end of its list, and the outer scan goes through
\* the words one by one.
C3_ScanAdvancesWithinBounds ==
    [][/\ (pc = "body" /\ pc' = "body")
            => (iterTokens' >= iterTokens + 1 /\ iterNextTokens' >= iterNextTokens + 1)
       /\ (pc = "body" /\ BodyLoopRuns)
            => (InRange(all_tokens, iterTokens)
                    /\ InRange(following_tokens, iterNextTokens))
       /\ exc' # "IndexError"
       /\ (pc = "scan" /\ pc' = "scan" /\ index < Len(words)) => index' = index + 1
       /\ (pc = "scan" /\ pc' = "body") => (index' = index /\ index < Len(words))
       /\ (pc = "scanned" /\ pc' = "scan") => (index' = index + 1 /\ index < Len(words))
       /\ (pc' \in {"scan", "body", "scanned"}) => index' <= Len(words')]_vars

\* a body scan has run through several passes, one of them over a nested closer,
\* and the outer scan has reached the end of the words
C3_Witness ==
    /\ pc = "scopes_returned"
    /\ hits[1] >= 1
    /\ iterTokens >= 6
    /\ index = Len(words)

\* C4: a registered entity's imports contain every import of its file.
C4_EntityImportsContainFileImports ==
    \A i \in 1..Len(results) : \A j \in 1..Len(results) :
        (results[i].kind = "entity" /\ results[j].kind = "file"
            /\ IsPlainName(results[i].entity_name)
            /\ results[i].parent_file_result = results[j].key)
        => \A k \in 1..Len(results[j].scanned_import_dependencies) :
               \E m \in 1..Len(results[i].scanned_import_dependencies) :
                   results[i].scanned_import_dependencies[m]
                       = results[j].scanned_import_dependencies[k]

\* C7: the generator yields, with each index, the words strictly after it.
C7_FollowingIsTheWordsAfter ==
    (pc = "scan" /\ index >= 1)
        => (~following.none /\ following.rest = TokensAfter(words, index - 1))

\* C8: no exception escapes file-import scanning and scope extraction.
C8_NoExceptionEscapes == exc = "none"

\* C9: a candidate whose header the grammar rejects adds one miss and no hit,
\* records no entity, leaves the registry alone, and the scan goes on with the
\* next word; the FileResult is registered at all times.
C9_RejectedHeaderIsOneMiss ==
    [][/\ (/\ Yielding
           /\ IsCandidate(Obj, previous_obj)
           /\ ~ReadAheadRaises(Fol)
           /\ ~ParseHeader(create_read_ahead_string(Obj, Fol)).ok)
          => /\ misses'[CurFile.analysis] = misses[CurFile.analysis] + 1
             /\ \A a \in Analyses \ {CurFile.analysis} : misses'[a] = misses[a]
             /\ hits' = hits
             /\ found_entities' = found_entities
             /\ results' = results
             /\ exc' = "none"
             /\ pc' = "scan"
             /\ index' = index + 1
       /\ FileKey \in DictKeys(results')
       /\ DictGet(results', FileKey).kind = "file"
       /\ (pc' = "scopes_returned" /\ hits'[1] = 0) => created_entity_results' = <<>>]_vars

\* `Class (`: the header was rejected, the scan went on to the end of the file
C9_Witness ==
    /\ pc = "done"
    /\ misses[1] = 1
    /\ hits[1] = 0
    /\ Len(results) = 1
    /\ results[1].scanned_tokens = <<CLASS, "(">>

\* C10: k matched declarations give k entity records.
C10_OneRecordPerDeclaration ==
    (/\ pc = "scopes_returned"
     /\ \A i \in 1..Len(found_entities) :
            IsPlainName(found_entities[i].key))
        => Len(created_entity_results) = hits[CurFile.analysis]

---------------------------------------------------------------------------
(* _filter_source_tokens_without_comments with the VB.NET markers, line by  *)
(* line (lines 239-263).                                                    *)

\* the lines the filtered sources of the model are made of
CommentLines == {<<"x">>, <<"Foo">>, <<"''">>, <<"'c">>, <<>>}

InitComments ==
    /\ pc = "filter_call"
    /\ \E n \in 0..MaxLines : \E ls \in [1..n -> CommentLines] :
           filter_input = JoinLines(ls)
    /\ source_lines = <<>>
    /\ line_no = 0
    /\ active_block_comment = FALSE
    /\ source_lines_without_comments = <<>>
    /\ IdlePipeline
    /\ IdleNorm

\* lines 240-243
FilterStart ==
    /\ pc = "filter_call"
    /\ source_lines' = SplitLines(filter_input)
    /\ source_lines_without_comments' = <<>>
    /\ active_block_comment' = FALSE
    /\ line_no' = 0
    /\ pc' = "filter_loop"
    /\ UNCHANGED <<exc, results, statVars, run_analysis, todo, cur, scopeVars,
                   filter_input, normVars, pending, import_lists>>

\* one pass of the loop of lines 246-261
FilterNextLine ==
    /\ pc = "filter_loop"
    /\ line_no < Len(source_lines)
    /\ LET line == source_lines[line_no + 1]
           r == FilterLine(line, active_block_comment,
                           INLINE_COMMENT, START_BLOCK_COMMENT, STOP_BLOCK_COMMENT)
       IN  /\ active_block_comment' = r.active
           /\ source_lines_without_comments' =
                  IF r.keep THEN Append(source_lines_without_comments, line)
                  ELSE source_lines_without_comments
    /\ line_no' = line_no + 1
    /\ UNCHANGED <<pc, exc, results, statVars, run_analysis, todo, cur, scopeVars,
                   filter_input, source_lines, normVars, pending, import_lists>>

\* line 263
FilterReturn ==
    /\ pc = "filter_loop"
    /\ line_no >= Len(source_lines)
    /\ pc' = "filter_returned"
    /\ UNCHANGED <<exc, results, statVars, run_analysis, todo, cur, scopeVars,
                   commentVars, normVars, pending, import_lists>>

NextComments == FilterStart \/ FilterNextLine \/ FilterReturn

SpecComments == InitComments /\ [][NextComments]_vars

\* The filter as the claim has it: a line starting with the block-start marker opens
\* the block, the next later line starting with the block-stop marker closes it,
\* and outside a block every line is kept that is no comment line.
RECURSIVE StrippedAsClaimed(_, _, _)
StrippedAsClaimed(lines, i, in_block) ==
    IF i > Len(lines) THEN <<>>
    ELSE LET stripped == LineChars(lines[i]) IN
         IF in_block
         THEN StrippedAsClaimed(lines, i + 1,
                                ~StartsWith(stripped, CharsOf[STOP_BLOCK_COMMENT]))
         ELSE IF StartsWith(stripped, CharsOf[START_BLOCK_COMMENT])
         THEN StrippedAsClaimed(lines, i + 1, TRUE)
         ELSE IF StartsWith(stripped, CharsOf[INLINE_COMMENT])
         THEN StrippedAsClaimed(lines, i + 1, FALSE)
         ELSE <<lines[i]>> \o StrippedAsClaimed(lines, i + 1, FALSE)

\* C5: with the VB.NET markers the block-stop line closes the block comment and
\* the non-comment lines after it are kept, in order.
C5_StopLineClosesBlock ==
    pc = "filter_returned"
        => source_lines_without_comments = StrippedAsClaimed(source_lines, 1, FALSE)

---------------------------------------------------------------------------
(* preprocess_file_content_and_generate_token_list_by_mapping (265-268),   *)
(* on characters.  A text is a sequence of characters, a token map an      *)
(* ordered sequence of <<origin, mapped>> pairs.                           *)

Padded(c) == <<" ", c, " ">>

PadEach(cs) == [i \in 1..Len(cs) |-> <<<<cs[i]>>, Padded(cs[i])>>]

\* VBNetParser._token_mappings
VBNetTokenMappings ==
    PadEach(<<":", ";", "(", ")", "{", "}", "[", "]", "?", "!", ",", "<", ">", "\"">>)

\* XMLParser._token_mappings
XMLTokenMappings ==
    PadEach(<<"<", ">", "/", "=", "\"">>)
        \o << <<<<"!", "-", "-">>, <<" ", "<", "!", "-", "-", " ">>>>,
              <<<<"-", "-">>, <<" ", "-", "-", " ">>>> >>

\* CSSParser._token_mappings
CSSTokenMappings ==
    PadEach(<<"{", "}", ":", ";">>)
        \o << <<<<"/", "*">>, <<" ", "/", "*", " ">>>>,
              <<<<"*", "/">>, <<" ", "*", "/", " ">>>>,
              <<<<"@", "i", "m", "p", "o", "r", "t">>,
                <<"@", "i", "m", "p", "o", "r", "t", " ">>>> >>
        \o PadEach(<<",">>)

TokenMappings(parser) ==
    CASE parser = "vbnet" -> VBNetTokenMappings
      [] parser = "xml"   -> XMLTokenMappings
      [] parser = "css"   -> CSSTokenMappings

\* str.replace(origin, mapped): left to right, occurrences that do not overlap
RECURSIVE Replace(_, _, _)
Replace(text, origin, mapped) ==
    IF text = <<>> THEN <<>>
    ELSE IF StartsWith(text, origin)
    THEN mapped \o Replace(SubSeq(text, Len(origin) + 1, Len(text)), origin, mapped)
    ELSE <<Head(text)>> \o Replace(Tail(text), origin, mapped)

\* the loop of lines 266-267 from entry i on
RECURSIVE ReplaceAll(_, _, _)
ReplaceAll(text, mapping_dict, i) ==
    IF i > Len(mapping_dict) THEN text
    ELSE ReplaceAll(Replace(text, mapping_dict[i][1], mapping_dict[i][2]),
                    mapping_dict, i + 1)

IsSpace(c) == c \in {" ", "\n"}

\* the longest leading run of characters that are no white space
RECURSIVE NonSpacePrefix(_)
NonSpacePrefix(text) ==
    IF text = <<>> \/ IsSpace(Head(text)) THEN <<>>
    ELSE <<Head(text)>> \o NonSpacePrefix(Tail(text))

\* re.findall(r'\S+|\n', text): the tokens, each a sequence of characters
RECURSIVE FindTokens(_)
FindTokens(text) ==
    IF text = <<>> THEN <<>>
    ELSE IF Head(text) = "\n" THEN <<<<"\n">>>> \o FindTokens(Tail(text))
    ELSE IF IsSpace(Head(text)) THEN FindTokens(Tail(text))
    ELSE <<NonSpacePrefix(text)>>
             \o FindTokens(SubSeq(text, Len(NonSpacePrefix(text)) + 1, Len(text)))

preprocess_file_content_and_generate_token_list_by_mapping(text, mapping_dict) ==
    FindTokens(ReplaceAll(text, mapping_dict, 1))

\* " ".join(tokens)
RECURSIVE JoinTokens(_)
JoinTokens(tokens) ==
    IF tokens = <<>> THEN <<>>
    ELSE IF Len(tokens) = 1 THEN tokens[1]
    ELSE tokens[1] \o <<" ">> \o JoinTokens(Tail(tokens))

\* the characters the texts of the model are made of
TextChars == {"a", " ", "<", "!", "-", ":", "/", "*"}

InitNormalize ==
    /\ pc = "normalize_call"
    /\ \E n \in 0..MaxTextLen : file_content \in [1..n -> TextChars]
    /\ mapping \in {"vbnet", "xml", "css"}
    /\ first_tokens = <<>>
    /\ second_tokens = <<>>
    /\ IdlePipeline
    /\ IdleComment

\* the source text is normalised
NormalizeSource ==
    /\ pc = "normalize_call"
    /\ first_tokens' = preprocess_file_content_and_generate_token_list_by_mapping(
                           file_content, TokenMappings(mapping))
    /\ pc' = "normalized"
    /\ UNCHANGED <<exc, results, statVars, run_analysis, todo, cur, scopeVars,
                   commentVars, file_content, mapping, second_tokens, pending, import_lists>>

\* the space-joined tokens are normalised again
NormalizeTokens ==
    /\ pc = "normalized"
    /\ second_tokens' = preprocess_file_content_and_generate_token_list_by_mapping(
                            JoinTokens(first_tokens), TokenMappings(mapping))
    /\ pc' = "normalized_twice"
    /\ UNCHANGED <<exc, results, statVars, run_analysis, todo, cur, scopeVars,
                   commentVars, file_content, mapping, first_tokens, pending, import_lists>>

NextNormalize == NormalizeSource \/ NormalizeTokens

SpecNormalize == InitNormalize /\ [][NextNormalize]_vars

\* C6: normalising the space-joined tokens of a normalised text gives the same
\* tokens, with every parser's token map.
C6_NormalizationIsIdempotent ==
    pc = "normalized_twice" => second_tokens = first_tokens

---------------------------------------------------------------------------
(* The C# parser (csharpparser.py).  The scope extraction it calls on the  *)
(* FileResult and the read-ahead generator it inherits are described by    *)
(* the specification of the engine (sections 4.2 and 4.3).                 *)

cs_entity_keywords == {"class", "struct", "interface", "enum"}

\* the keyword list that stops the entity's using scan (lines 222-226)
cs_import_stop_keywords == {"namespace", "class", "struct", "interface", "enum"}

cs_ignore_entity_keywords ==
    {"class", "struct", "interface", "enum", "namespace", "using", "public", "private",
     "protected", "internal", "static", "readonly", "virtual", "override", "abstract",
     "new", "this", "base", "event", "delegate", "operator", "implicit", "explicit"}

\* the characters of [a-zA-Z0-9_.] and of pp.alphanums + '.' + '_'
DottedNameChars == AlnumChars \cup {"."}

\* the longest leading run of characters of DottedNameChars
RECURSIVE DottedNamePrefix(_)
DottedNamePrefix(chars) ==
    IF chars = <<>> \/ Head(chars) \notin DottedNameChars
    THEN <<>>
    ELSE <<Head(chars)>> \o DottedNamePrefix(Tail(chars))

\* match_expression.parseString(read_ahead_string) (lines 153-162): a keyword, a
\* name, and SkipTo(FollowedBy("{")), which needs an opening brace further on
CSParseHeader(read_ahead) ==
    LET rest == SkipNewlines(Tail(read_ahead))
        word == IF rest = <<>> THEN <<>> ELSE DottedNamePrefix(CharsOf[Head(rest)])
    IN  IF /\ Head(read_ahead) \in cs_entity_keywords
           /\ word # <<>>
           /\ \E i \in 2..Len(rest) : AnyKeywordIn({"{"}, rest[i])
        THEN [ok |-> TRUE,
              entity_name |-> CHOOSE t \in TokenUniverse : CharsOf[t] = word]
        ELSE [ok |-> FALSE, entity_name |-> ""]

\* the body of a brace-delimited entity, from the entity keyword on: the depth goes
\* up on "{" and down on "}", and the body ends when it is back at zero
RECURSIVE BraceSpan(_, _, _)
BraceSpan(tokens, i, level) ==
    IF i > Len(tokens) THEN [closed |-> FALSE, span |-> <<>>]
    ELSE LET opened == IF tokens[i] = "{" THEN level + 1 ELSE level
             depth == IF tokens[i] = "}" THEN opened - 1 ELSE opened
         IN  IF tokens[i] = "}" /\ depth = 0
             THEN [closed |-> TRUE, span |-> <<>>]
             ELSE LET r == BraceSpan(tokens, i + 1, depth)
                  IN  [closed |-> r.closed, span |-> <<tokens[i]>> \o r.span]

\* the brace-delimited scope extraction from word idx on (idx is 1-based): the
\* matched entities in source order, and the hits and misses it counts
RECURSIVE BraceScopes(_, _)
BraceScopes(list_of_words, idx) ==
    IF idx > Len(list_of_words) THEN [entities |-> <<>>, hits |-> 0, misses |-> 0]
    ELSE LET later == BraceScopes(list_of_words, idx + 1)
             prev == IF idx = 1 THEN "" ELSE list_of_words[idx - 1]
             read_ahead == SubSeq(list_of_words, idx, Len(list_of_words))
             header == CSParseHeader(read_ahead)
             body == BraceSpan(read_ahead, 1, 0)
         IN  IF ~(list_of_words[idx] \in cs_entity_keywords /\ prev # "}")
             THEN later
             ELSE IF ~header.ok \/ ~body.closed
             THEN [later EXCEPT !.misses = @ + 1]
             ELSE [later EXCEPT
                      !.hits = @ + 1,
                      !.entities = <<[key |-> header.entity_name, tokens |-> body.span]>> \o @]

\* the words the brace-delimited extraction runs over: comments and empty bodies go
CSScopeWords(tokens) ==
    RemoveEmptyScopes(filter_source_tokens_without_comments(tokens, "//", "/*", "*/"))

\* the words of a read-ahead string before its first ";": split(';')[0].strip()
RECURSIVE FirstStatement(_)
FirstStatement(read_ahead) ==
    IF read_ahead = <<>> \/ Head(read_ahead) = ";"
    THEN <<>>
    ELSE <<Head(read_ahead)>> \o FirstStatement(Tail(read_ahead))

\* s.strip() of one word
Stripped(word) == IF word = NL THEN "" ELSE word

\* re.match(r'^\s*using\s+[a-zA-Z0-9_.]+$', import_name) (lines 255, 267): apart
\* from newlines the statement is `using` and one dotted name
MatchesNamespacePattern(statement) ==
    LET parts == SelectSeq(statement, LAMBDA w : w # NL)
    IN  /\ Len(parts) = 2
        /\ parts[1] = "using"
        /\ DottedNamePrefix(CharsOf[parts[2]]) = CharsOf[parts[2]]

\* the loop of _add_usings_to_file_results over one file (lines 262-270), from word
\* idx on (idx is 0-based): the names appended to scanned_import_dependencies
RECURSIVE FileUsingScan(_, _)
FileUsingScan(tokens, idx) ==
    IF idx >= Len(tokens) THEN <<>>
    ELSE LET statement == FirstStatement(SubSeq(tokens, idx + 1, Len(tokens)))
         IN  (IF tokens[idx + 1] = "using" /\ MatchesNamespacePattern(statement)
              THEN <<Stripped(statement[2])>>
              ELSE <<>>)
                 \o FileUsingScan(tokens, idx + 1)

\* a statement without the newlines at its end, which strip() removes
RECURSIVE WithoutTrailingNewlines(_)
WithoutTrailingNewlines(statement) ==
    IF statement # <<>> /\ statement[Len(statement)] = NL
    THEN WithoutTrailingNewlines(SubSeq(statement, 1, Len(statement) - 1))
    ELSE statement

\* the loop of _add_usings_to_single_entity_result (lines 212-227); a statement of
\* one word raises IndexError, which is logged
RECURSIVE EntityUsingScan(_, _)
EntityUsingScan(tokens, idx) ==
    IF idx >= Len(tokens) THEN <<>>
    ELSE LET statement == WithoutTrailingNewlines(
                              FirstStatement(SubSeq(tokens, idx + 1, Len(tokens))))
         IN  IF tokens[idx + 1] = "using"
             THEN (IF Len(statement) >= 2 THEN <<Stripped(statement[2])>> ELSE <<>>)
                      \o EntityUsingScan(tokens, idx + 1)
             ELSE IF AnyKeywordIn(cs_import_stop_keywords, tokens[idx + 1])
             THEN <<>>
             ELSE EntityUsingScan(tokens, idx + 1)

\* the while loop of lines 286-288 from current_index on (0-based): the parts
\* collected, and whether the index ran off the tokens (IndexError)
RECURSIVE NamespaceParts(_, _)
NamespaceParts(tokens, current_index) ==
    IF current_index >= Len(tokens) THEN [raised |-> TRUE, namespace_parts |-> <<>>]
    ELSE IF tokens[current_index + 1] = "{"
    THEN [raised |-> FALSE, namespace_parts |-> <<>>]
    ELSE LET r == NamespaceParts(tokens, current_index + 1)
         IN  [raised |-> r.raised,
              namespace_parts |-> <<tokens[current_index + 1]>> \o r.namespace_parts]

\* ".".join(parts)
RECURSIVE JoinDot(_)
JoinDot(parts) ==
    IF parts = <<>> THEN ""
    ELSE IF Len(parts) = 1 THEN parts[1]
    ELSE parts[1] \o "." \o JoinDot(Tail(parts))

\* a scan in which a later namespace token replaces the module name
RECURSIVE NamespaceScanLastWins(_, _, _)
NamespaceScanLastWins(tokens, idx, module_name) ==
    IF idx >= Len(tokens) THEN module_name
    ELSE IF tokens[idx + 1] = "namespace"
    THEN LET r == NamespaceParts(tokens, idx + 1)
         IN  NamespaceScanLastWins(tokens, idx + 1,
                 IF r.raised THEN module_name ELSE JoinDot(r.namespace_parts))
    ELSE NamespaceScanLastWins(tokens, idx + 1, module_name)

\* a scan that writes the parts collected before the idx ran off
RECURSIVE NamespaceScanPartial(_, _, _)
NamespaceScanPartial(tokens, idx, module_name) ==
    IF idx >= Len(tokens) THEN module_name
    ELSE IF tokens[idx + 1] = "namespace"
    THEN JoinDot(NamespaceParts(tokens, idx + 1).namespace_parts)
    ELSE NamespaceScanPartial(tokens, idx + 1, module_name)

\* the loop of _add_namespace_to_result from token idx on (0-based, lines 281-296): module_name
RECURSIVE NamespaceScan(_, _, _)
NamespaceScan(tokens, idx, module_name) ==
    IF idx >= Len(tokens) THEN module_name
    ELSE IF tokens[idx + 1] = "namespace"
    THEN LET r == NamespaceParts(tokens, idx + 1)
         IN  IF r.raised THEN module_name ELSE JoinDot(r.namespace_parts)
    ELSE NamespaceScan(tokens, idx + 1, module_name)

add_namespace_to_result(result) ==
    [result EXCEPT !.module_name = NamespaceScan(result.scanned_tokens, 0, @)]

\* _add_usings_to_file_results (lines 253-270)
add_usings_to_file_results(res, analysis) ==
    [i \in 1..Len(res) |->
        IF res[i].analysis = analysis /\ res[i].kind = "file"
        THEN [res[i] EXCEPT !.scanned_import_dependencies =
                  @ \o FileUsingScan(res[i].scanned_tokens, 0)]
        ELSE res[i]]

\* the loop with the ":" token itself taken as the parent
RECURSIVE CSParentNameOfMarker(_, _)
CSParentNameOfMarker(tokens, i) ==
    IF i > Len(tokens) THEN ""
    ELSE IF tokens[i] = ":"
    THEN tokens[i]
    ELSE CSParentNameOfMarker(tokens, i + 1)

\* the loop of lines 197-200: the token after the first ":"
RECURSIVE CSParentName(_, _)
CSParentName(tokens, i) ==
    IF i > Len(tokens) THEN ""
    ELSE IF tokens[i] = ":"
    THEN (IF i < Len(tokens) THEN tokens[i + 1] ELSE "")
    ELSE CSParentName(tokens, i + 1)

\* _add_inheritance_to_entity_result (lines 193-203)
cs_add_inheritance_to_entity_result(result) ==
    LET parent_name == CSParentName(result.scanned_tokens, 1)
    IN  IF parent_name # ""
        THEN [result EXCEPT !.scanned_inheritance_dependencies = Append(@, parent_name)]
        ELSE result

\* lines 175-185: the entities kept, each with the usings of the file's tokens
CSValidEntityResults(file, entities) ==
    LET kept == SelectSeq(entities, LAMBDA e : e.key \notin cs_ignore_entity_keywords)
    IN  [i \in 1..Len(kept) |->
            [EntityResult(file, kept[i].key, kept[i].tokens)
                EXCEPT !.scanned_import_dependencies =
                           @ \o EntityUsingScan(file.scanned_tokens, 0)]]

\* lines 187-190: self._results[entity_result.entity_name] = entity_result, in order
RECURSIVE CSStoreEntityResults(_, _)
CSStoreEntityResults(res, entity_results) ==
    IF entity_results = <<>> THEN res
    ELSE CSStoreEntityResults(
             DictSet(res, Head(entity_results).entity_name,
                     cs_add_inheritance_to_entity_result(Head(entity_results))),
             Tail(entity_results))

\* lines 141-190 for one file from token i on (1-based): every token that contains
\* an entity keyword runs the extraction over the whole file and stores its
\* entities; st is the registry with the counters
RECURSIVE CSEntityResultsOfFile(_, _, _)
CSEntityResultsOfFile(st, file, i) ==
    IF i > Len(file.scanned_tokens) THEN st
    ELSE IF ~AnyKeywordIn(cs_entity_keywords, file.scanned_tokens[i])
    THEN CSEntityResultsOfFile(st, file, i + 1)
    ELSE LET scopes == BraceScopes(CSScopeWords(file.scanned_tokens), 1)
         IN  CSEntityResultsOfFile(
                 [results |-> CSStoreEntityResults(
                                  st.results, CSValidEntityResults(file, scopes.entities)),
                  hits |-> [st.hits EXCEPT ![file.analysis] = @ + scopes.hits],
                  misses |-> [st.misses EXCEPT ![file.analysis] = @ + scopes.misses]],
                 file, i + 1)

\* the loop of line 138 over filtered_results
RECURSIVE CSEntityResultsOfFiles(_, _)
CSEntityResultsOfFiles(st, filtered_results) ==
    IF filtered_results = <<>> THEN st
    ELSE CSEntityResultsOfFiles(CSEntityResultsOfFile(st, Head(filtered_results), 1),
                                Tail(filtered_results))

---------------------------------------------------------------------------
(* An analysis over several files.                                         *)

\* an analysis has at most MaxFiles files
MaxFiles == 2

FileNames == <<"a", "b", "c", "d">>

\* `Class Foo`, newline, `Inherits Bar`, newline, `End Class`
VBInheritsFile == <<CLASS, "Foo", NL, INHERITANCE, "Bar", NL, CLOSE_SCOPE, CLASS>>

\* a class with one Sub, a statement on each line
VBNestedFile ==
    <<CLASS, "Foo", NL, SUB, NL, CLOSE_SCOPE, SUB, NL, "x", NL, CLOSE_SCOPE, CLASS>>

\* the VB.NET files of the model
VBSampleFiles ==
    {VBInheritsFile, VBNestedFile,
     <<CLASS>>, <<CLASS, "(">>, <<CLASS, "Foo">>,
     <<"x", IMPORT>>, <<IMPORT, NL, IMPORT, "Bar">>,
     <<IMPORT, "Bar", NL, CLASS, "Bar", NL, CLOSE_SCOPE, CLASS>>}

\* the registry after generate_file_result_from_analysis has run on every file
InitVBFiles ==
    /\ pc = "file_results"
    /\ \E n \in 1..MaxFiles : \E fs \in [1..n -> VBSampleFiles] :
           results = [i \in 1..n |-> FileResult(FileNames[i], 1, fs[i])]
    /\ exc = "none"
    /\ hits = [a \in Analyses |-> 0]
    /\ misses = [a \in Analyses |-> 0]
    /\ run_analysis = 1
    /\ todo = <<>>
    /\ cur = ""
    /\ pending = <<>>
    /\ import_lists = <<>>
    /\ IdleScope
    /\ IdleComment
    /\ IdleNorm

\* `class Foo : Bar { int x; }`
CSInheritsFile == <<"class", "Foo", ":", "Bar", "{", "int", "x", ";", "}">>

\* `using A.B;` followed by `class C {}`
CSUsingFile == <<"using", "A.B", ";", "class", "C", "{", "}">>

\* two namespace declarations, the first one around a class
CSNamespacesFile ==
    <<"namespace", "A.B", "{", "class", "Foo", "{", "int", "x", ";", "}", "}",
      "namespace", "N", "{", "int", "x", ";", "}">>

\* the C# files of the model
CSSampleFiles ==
    {CSInheritsFile, CSUsingFile, CSNamespacesFile,
     <<"class", "Foo", "{", "int", "x", ";", "}">>,
     <<"namespace", "N">>,
     <<"class", "(">>,
     <<"using", ";", "using", "A.B", ";">>,
     <<"using", "static", "A.B", ";", "using", "N", ";", "class", "Bar", "{", "x", "}">>}

\* the driver has the files of a C# analysis to hand over
InitCSFiles ==
    /\ pc = "cs_files"
    /\ \E n \in 1..MaxFiles : \E fs \in [1..n -> CSSampleFiles] :
           pending = [i \in 1..n |-> [key |-> FileNames[i], tokens |-> fs[i]]]
    /\ exc = "none"
    /\ results = <<>>
    /\ hits = [a \in Analyses |-> 0]
    /\ misses = [a \in Analyses |-> 0]
    /\ run_analysis = 1
    /\ todo = <<>>
    /\ cur = ""
    /\ import_lists = <<>>
    /\ IdleScope
    /\ IdleComment
    /\ IdleNorm

\* CSharpParser.generate_file_result_from_analysis (lines 98-122) on the next file
CSGenerateFileResult ==
    /\ pc = "cs_files"
    /\ pending # <<>>
    /\ results' = DictSet(results, Head(pending).key,
                          add_namespace_to_result(
                              FileResult(Head(pending).key, run_analysis,
                                         Head(pending).tokens)))
    /\ pending' = Tail(pending)
    /\ UNCHANGED <<pc, exc, statVars, run_analysis, todo, cur, scopeVars, commentVars,
                   normVars, import_lists>>

\* CSharpParser.after_generated_file_results (lines 124-125)
CSAfterGeneratedFileResults ==
    /\ pc = "cs_files"
    /\ pending = <<>>
    /\ results' = add_usings_to_file_results(results, run_analysis)
    /\ pc' = "cs_file_imports"
    /\ UNCHANGED <<exc, statVars, run_analysis, todo, cur, scopeVars, commentVars,
                   normVars, pending, import_lists>>

\* CSharpParser.generate_entity_results_from_analysis (lines 132-190)
CSGenerateEntityResults ==
    /\ pc = "cs_file_imports"
    /\ LET filtered_results ==
               SelectSeq(results,
                         LAMBDA v : v.analysis = run_analysis /\ v.kind = "file")
           st == CSEntityResultsOfFiles(
                     [results |-> results, hits |-> hits, misses |-> misses],
                     filtered_results)
       IN  /\ results' = st.results
           /\ hits' = st.hits
           /\ misses' = st.misses
    /\ pc' = "done"
    /\ UNCHANGED <<exc, run_analysis, todo, cur, scopeVars, commentVars, normVars,
                   pending, import_lists>>

InitFiles == InitVBFiles \/ InitCSFiles

NextFiles ==
    \/ Next
    \/ CSGenerateFileResult
    \/ CSAfterGeneratedFileResults
    \/ CSGenerateEntityResults

SpecFiles == InitFiles /\ [][NextFiles]_vars

\* the records of the registry of one kind
ResultsOfKind(kind) == SelectSeq(results, LAMBDA r : r.kind = kind)

\* C11: the file `Class Foo`, newline, `Inherits Bar`, newline, `End Class` alone
\* yields one registered entity, Foo, with the inheritance dependencies [Bar].
C11_InheritsScenario ==
    (/\ pc = "done"
     /\ Len(ResultsOfKind("file")) = 1
     /\ results[1].scanned_tokens = VBInheritsFile)
        => /\ Len(ResultsOfKind("entity")) = 1
           /\ ResultsOfKind("entity")[1].entity_name = "Foo"
           /\ ResultsOfKind("entity")[1].key = "Foo"
           /\ ResultsOfKind("entity")[1].scanned_inheritance_dependencies = <<"Bar">>

\* the analysis of that file alone is over
C11_Witness ==
    /\ pc = "done"
    /\ Len(results) = 2
    /\ results[1].scanned_tokens = VBInheritsFile
    /\ results[2].kind = "entity"
    /\ hits[1] = 1

C13_CSharpUsingScenario ==
    (/\ pc = "done"
     /\ Len(ResultsOfKind("file")) = 1
     /\ results[1].scanned_tokens = CSUsingFile)
        => /\ results[1].scanned_import_dependencies = <<"A.B">>
           /\ \E i \in 1..Len(results) :
                  /\ results[i].kind = "entity"
                  /\ results[i].key = "C"
                  /\ results[i].scanned_import_dependencies = <<"A.B">>

\* the files of the model that declare an entity named Foo
FooFiles ==
    {VBInheritsFile, VBNestedFile, CSInheritsFile, CSNamespacesFile,
     <<"class", "Foo", "{", "int", "x", ";", "}">>}

\* where the declaration of Foo starts in the tokens of such a file
FooDeclaration(tokens) ==
    CHOOSE i \in 1..(Len(tokens) - 1) :
        tokens[i] \in entity_keywords \cup cs_entity_keywords /\ tokens[i + 1] = "Foo"

\* C14: two files of one analysis that both declare Foo leave one entity record
\* under the name Foo, the one of the file processed last, and both file records.
C14_LastFileWinsTheName ==
    (/\ pc = "done"
     /\ exc = "none"
     /\ Len(ResultsOfKind("file")) = 2
     /\ \A i \in 1..2 : ResultsOfKind("file")[i].scanned_tokens \in FooFiles)
        => /\ Cardinality({i \in 1..Len(results) : results[i].key = "Foo"}) = 1
           /\ Len(ResultsOfKind("entity")) = 1
           /\ {results[i].key : i \in 1..Len(results)} = {FileNames[1], FileNames[2], "Foo"}
           /\ results[1].kind = "file" /\ results[1].key = FileNames[1]
           /\ results[2].kind = "file" /\ results[2].key = FileNames[2]
           /\ LET e == DictGet(results, "Foo")
                  last == results[2].scanned_tokens
              IN  /\ e.kind = "entity"
                  /\ e.parent_file_result = FileNames[2]
                  /\ Len(e.scanned_tokens) >= 4
                  /\ \A k \in 1..4 :
                         e.scanned_tokens[k] = last[FooDeclaration(last) + k - 1]

\* two different files declaring Foo have been analysed
C14_Witness ==
    /\ pc = "done"
    /\ Len(results) = 3
    /\ results[1].scanned_tokens \in FooFiles
    /\ results[2].scanned_tokens \in FooFiles
    /\ results[1].scanned_tokens # results[2].scanned_tokens
    /\ results[3].key = "Foo"
    /\ hits[1] >= 2

\* C15: no header match starts on an entity keyword that comes right after `End`
\* in the scanned words: such a keyword is no hit, no miss and no entity.
C15_NoHeaderMatchAfterEnd ==
    [][(/\ pc = "scan"
        /\ index < Len(words)
        /\ index >= 1
        /\ words[index] = CLOSE_SCOPE
        /\ words[index + 1] \in entity_keywords)
          => /\ hits' = hits
             /\ misses' = misses
             /\ found_entities' = found_entities
             /\ exc' = "none"
             /\ pc' = "scan"]_vars

\* `Class ( End Class`: the header match on the first Class failed, and the Class of
\* `End Class` was passed without a hit or a miss
C15_Witness ==
    /\ pc = "done"
    /\ Len(results) = 1
    /\ results[1].scanned_tokens = <<CLASS, "(", CLOSE_SCOPE, CLASS>>
    /\ misses[1] = 1
    /\ hits[1] = 0

\* C16: the tokens recorded for an entity closed at its own End are the words from
\* its declaration up to that End, each once and in order.
C16_SpanIsContiguous ==
    (/\ pc = "scanned"
     /\ closed
     /\ IsPlainName(entity_name)
     /\ OwnEnd # 0
     /\ iterTokens + 1 = OwnEnd)
        => DictGet(found_entities, entity_name).tokens = SubSeq(all_tokens, 1, OwnEnd - 1)

\* the first position from i on where the tokens hold tok, 0 if there is none
RECURSIVE FirstPosition(_, _, _)
FirstPosition(tokens, tok, i) ==
    IF i > Len(tokens) THEN 0
    ELSE IF tokens[i] = tok THEN i
    ELSE FirstPosition(tokens, tok, i + 1)

\* the tokens strictly between the first `namespace` and the next "{": found tells
\* whether both are there
FirstNamespace(tokens) ==
    LET n == FirstPosition(tokens, "namespace", 1)
        b == IF n = 0 THEN 0 ELSE FirstPosition(tokens, "{", n + 1)
    IN  [declared |-> n # 0,
         found |-> b # 0,
         between |-> IF b = 0 THEN <<>> ELSE SubSeq(tokens, n + 1, b - 1)]

\* C17: a file's module_name is the "."-join of the tokens between its first
\* `namespace` and the next "{", it is written when the file is registered and
\* nothing changes it afterwards.
C17_FirstNamespaceWins ==
    [][/\ \A i \in 1..Len(results') :
              (results'[i].kind = "file" /\ FirstNamespace(results'[i].scanned_tokens).found)
                  => results'[i].module_name
                         = JoinDot(FirstNamespace(results'[i].scanned_tokens).between)
       /\ \A i \in 1..Len(results') :
              results'[i].scanned_tokens = CSNamespacesFile
                  => results'[i].module_name = "A.B"
       /\ \A i \in 1..Len(results) :
              results[i].kind = "file"
                  => /\ results'[i].key = results[i].key
                     /\ results'[i].module_name = results[i].module_name]_vars

\* a file with two namespace declarations has gone through the whole analysis
C17_Witness ==
    /\ pc = "done"
    /\ \E i \in 1..Len(results) :
           /\ results[i].scanned_tokens = CSNamespacesFile
           /\ results[i].module_name = "A.B"
    /\ \E i \in 1..Len(results) : results[i].kind = "entity"

\* C18: a file whose `namespace` has no "{" after it is registered with the empty
\* module_name, and no exception leaves the call.
C18_NamespaceWithoutScopeLeavesNoName ==
    [][(/\ pc = "cs_files"
        /\ pending # <<>>
        /\ FirstNamespace(Head(pending).tokens).declared
        /\ ~FirstNamespace(Head(pending).tokens).found)
          => /\ exc' = "none"
             /\ Head(pending).key \in DictKeys(results')
             /\ DictGet(results', Head(pending).key).kind = "file"
             /\ DictGet(results', Head(pending).key).scanned_tokens = Head(pending).tokens
             /\ DictGet(results', Head(pending).key).module_name = ""]_vars

\* the file `namespace N` has been registered and analysed
C18_Witness ==
    /\ pc = "done"
    /\ exc = "none"
    /\ \E i \in 1..Len(results) :
           /\ results[i].kind = "file"
           /\ results[i].scanned_tokens = <<"namespace", "N">>
           /\ results[i].module_name = ""

\* a token made of name characters only
IsDottedName(token) == DottedNamePrefix(CharsOf[token]) = CharsOf[token]

\* the directive at position i names a module: a name follows the keyword, and in
\* C# the statement ends after it
NamesModule(tokens, i, keyword) ==
    /\ i < Len(tokens)
    /\ IsDottedName(tokens[i + 1])
    /\ keyword = "using" => (i + 1 = Len(tokens) \/ tokens[i + 2] = ";")

\* the names of the directives from position i on that name a module, in order
RECURSIVE DirectiveNames(_, _, _)
DirectiveNames(tokens, i, keyword) ==
    IF i > Len(tokens) THEN <<>>
    ELSE (IF tokens[i] = keyword /\ NamesModule(tokens, i, keyword)
          THEN <<tokens[i + 1]>> ELSE <<>>)
             \o DirectiveNames(tokens, i + 1, keyword)

\* the number of directives from position i on that name no module
RECURSIVE FailingDirectives(_, _, _)
FailingDirectives(tokens, i, keyword) ==
    IF i > Len(tokens) THEN 0
    ELSE (IF tokens[i] = keyword /\ ~NamesModule(tokens, i, keyword) THEN 1 ELSE 0)
             + FailingDirectives(tokens, i + 1, keyword)

\* C19: after the file-level directive scan a file's imports are the names of its
\* well-formed directives, in order: a directive without a name adds nothing and
\* stops nothing.
C19_FailedDirectiveAddsNothing ==
    /\ pc = "file_imports"
         => \A i \in 1..Len(results) :
                results[i].scanned_import_dependencies
                    = DirectiveNames(results[i].scanned_tokens, 1, IMPORT)
    /\ pc = "cs_file_imports"
         => \A i \in 1..Len(results) :
                results[i].scanned_import_dependencies
                    = DirectiveNames(results[i].scanned_tokens, 1, "using")

\* the failing directives of all files of the registry
RECURSIVE FailingDirectivesOfFiles(_, _)
FailingDirectivesOfFiles(res, keyword) ==
    IF res = <<>> THEN 0
    ELSE FailingDirectives(Head(res).scanned_tokens, 1, keyword)
             + FailingDirectivesOfFiles(Tail(res), keyword)

\* C20: the file-level directive scan adds one miss for every directive that fails.
C20_FailedDirectiveIsOneMiss ==
    [][/\ (pc = "file_results" /\ pc' = "file_imports")
            => misses'[run_analysis]
                   = misses[run_analysis] + FailingDirectivesOfFiles(results, IMPORT)
       /\ (pc = "cs_files" /\ pc' = "cs_file_imports")
            => misses'[run_analysis]
                   = misses[run_analysis] + FailingDirectivesOfFiles(results, "using")]_vars

---------------------------------------------------------------------------
(* A parser registry that holds the files of two analyses.                 *)

\* a class whose captured name is a keyword of the ignore list
VBIgnoredNameFile == <<CLASS, IMPORT, NL, CLOSE_SCOPE, CLASS>>

\* a class with an identifier in its body that contains `Class`
VBSubstringFile == <<CLASS, "Foo", NL, "MyClass", NL, CLOSE_SCOPE, CLASS>>

\* a class without a parent around a class that inherits from C
VBNestedInheritsFile ==
    <<CLASS, "Foo", NL, CLASS, "Bar", NL, INHERITANCE, "C", NL, CLOSE_SCOPE, CLASS,
      NL, CLOSE_SCOPE, CLASS>>

\* the VB.NET files of the two analyses
VBSharedFiles ==
    {VBInheritsFile, VBIgnoredNameFile, VBSubstringFile, VBNestedInheritsFile,
     <<CLASS>>, <<CLASS, "(">>, <<CLASS, "Foo">>}

\* the registry after generate_file_result_from_analysis has run on the files of
\* both analyses; analysis 1 goes on
InitVBShared ==
    /\ pc = "file_results"
    /\ \E n \in 1..MaxFiles : \E fs \in [1..n -> VBSharedFiles] :
       \E as \in [1..n -> Analyses] :
           results = [i \in 1..n |-> FileResult(FileNames[i], as[i], fs[i])]
    /\ exc = "none"
    /\ hits = [a \in Analyses |-> 0]
    /\ misses = [a \in Analyses |-> 0]
    /\ run_analysis = 1
    /\ todo = <<>>
    /\ cur = ""
    /\ pending = <<>>
    /\ import_lists = <<>>
    /\ IdleScope
    /\ IdleComment
    /\ IdleNorm

\* a class whose captured name is a keyword of the ignore list
CSIgnoredNameFile == <<"class", "static", "{", "x", "}">>

\* two classes, one after the other: `class Foo { x }; class Bar { x }`
CSTwoClassesFile ==
    <<"class", "Foo", "{", "x", "}", ";", "class", "Bar", "{", "x", "}">>

\* the C# files of the two analyses
CSSharedFiles ==
    {CSInheritsFile, CSUsingFile, CSIgnoredNameFile, CSTwoClassesFile,
     <<"class", "(">>, <<"namespace", "N">>}

\* the registry holds the files of analysis 2, on which
\* generate_file_result_from_analysis has run, and the driver has the files of
\* analysis 1 to hand over
InitCSShared ==
    /\ pc = "cs_files"
    /\ \E n \in 1..MaxFiles : \E fs \in [1..n -> CSSharedFiles] :
           pending = [i \in 1..n |-> [key |-> FileNames[i], tokens |-> fs[i]]]
    /\ \E m \in 0..1 : \E gs \in [1..m -> CSSharedFiles] :
           results = [i \in 1..m |->
                         add_namespace_to_result(
                             FileResult(FileNames[MaxFiles + i], 2, gs[i]))]
    /\ exc = "none"
    /\ hits = [a \in Analyses |-> 0]
    /\ misses = [a \in Analyses |-> 0]
    /\ run_analysis = 1
    /\ todo = <<>>
    /\ cur = ""
    /\ import_lists = <<>>
    /\ IdleScope
    /\ IdleComment
    /\ IdleNorm

InitShared == InitVBShared \/ InitCSShared

SpecShared == InitShared /\ [][NextFiles]_vars

\* the records of one analysis in a registry
ResultsOfAnalysis(res, analysis) == SelectSeq(res, LAMBDA r : r.analysis = analysis)

\* the positions of the pipelines in which entity generation runs
EntityGenerationSteps ==
    {"file_imports", "next_file", "scan", "body", "scanned", "scopes_returned",
     "cs_file_imports"}

\* C21: entity generation for an analysis leaves the records and the hit and miss
\* counters of every other analysis of the registry unchanged.
C21_OtherAnalysesAreLeftAlone ==
    [][(pc \in EntityGenerationSteps)
         => \A a \in Analyses \ {run_analysis} :
                (/\ hits'[a] = hits[a]
                 /\ misses'[a] = misses[a]
                 /\ ResultsOfAnalysis(results', a) = ResultsOfAnalysis(results, a))
      ]_vars

\* C22: entity generation registers no entity whose name is a keyword of the
\* parser's ignore list; such a candidate is matched and counted as a hit, and
\* dropped before registration.
C22_IgnoredNamesAreNotRegistered ==
    [][/\ (pc = "scopes_returned")
            => \A i \in 1..Len(results') :
                   results'[i].kind = "entity"
                       => results'[i].entity_name \notin ignore_entity_keywords
       /\ (pc = "cs_file_imports")
            => \A i \in 1..Len(results') :
                   results'[i].kind = "entity"
                       => results'[i].entity_name \notin cs_ignore_entity_keywords]_vars

\* the VB.NET class named Imports was matched, counted and not registered
C22_Witness ==
    /\ pc = "next_file"
    /\ \E i \in 1..Len(created_entity_results) :
           /\ created_entity_results[i].entity_name = IMPORT
           /\ hits[created_entity_results[i].analysis] >= 1
    /\ IMPORT \in ignore_entity_keywords
    /\ \A i \in 1..Len(results) : results[i].entity_name # IMPORT

---------------------------------------------------------------------------
(* _add_imports_to_entity_result of the CSS, SCSS and Twig parsers: an     *)
(* entity takes over the imports of its file.  The records hold their      *)
(* import lists as list objects, which import_lists keeps by position.     *)

\* a file has at most MaxImports imports when its entity is created
MaxImports == 2

ImportNames == {"a.css", "b.css", "c.css"}

\* x in list
Contains(list, x) == \E i \in 1..Len(list) : list[i] = x

\* a loop that appends every import of the parent
RECURSIVE AddEveryImport(_, _, _, _)
AddEveryImport(lists, parent, entity, i) ==
    IF i > Len(lists[parent]) THEN lists
    ELSE AddEveryImport([lists EXCEPT ![entity] = Append(@, lists[parent][i])],
                        parent, entity, i + 1)

\* the loop over the parent's list from position i on (1-based): parent and entity
\* are the positions of the two list objects in lists, and each pass reads the
\* parent's list as it is then
RECURSIVE AddMissingImports(_, _, _, _)
AddMissingImports(lists, parent, entity, i) ==
    IF i > Len(lists[parent]) THEN lists
    ELSE LET import_dependency == lists[parent][i]
         IN  IF Contains(lists[entity], import_dependency)
             THEN AddMissingImports(lists, parent, entity, i + 1)
             ELSE AddMissingImports(
                      [lists EXCEPT ![entity] = Append(@, import_dependency)],
                      parent, entity, i + 1)

\* an attachment that makes the entity hold the list object of its file
add_imports_by_reference(st, key) ==
    [st EXCEPT !.results[DictPos(st.results, key)].scanned_import_dependencies =
         DictGet(st.results, DictGet(st.results, key).parent_file_result)
             .scanned_import_dependencies]

\* _add_imports_to_entity_result(entity_result); st is the registry with the list
\* objects, key the key of the entity
add_imports_to_entity_result(st, key) ==
    LET entity_result == DictGet(st.results, key)
        parent_file_result == DictGet(st.results, entity_result.parent_file_result)
    IN  [st EXCEPT !.import_lists =
             AddMissingImports(@, parent_file_result.scanned_import_dependencies,
                               entity_result.scanned_import_dependencies, 1)]

\* a file with its imports and an entity of it as generate_entity_results_from_scopes
\* returns it, with an import list of its own
InitImports ==
    /\ pc = "entity_created"
    /\ results =
           <<[FileResult(FileNames[1], 1, <<>>)
                 EXCEPT !.scanned_import_dependencies = 1],
             [EntityResult(FileResult(FileNames[1], 1, <<>>), "Foo", <<>>)
                 EXCEPT !.scanned_import_dependencies = 2]>>
    /\ \E n \in 0..MaxImports : \E imports \in [1..n -> ImportNames] :
           import_lists = <<imports, <<>>>>
    /\ exc = "none"
    /\ hits = [a \in Analyses |-> 0]
    /\ misses = [a \in Analyses |-> 0]
    /\ run_analysis = 1
    /\ todo = <<>>
    /\ cur = ""
    /\ pending = <<>>
    /\ IdleScope
    /\ IdleComment
    /\ IdleNorm

\* self._add_imports_to_entity_result(entity_result)
AddImportsToEntityResult ==
    /\ pc \in {"entity_created", "imports_added"}
    /\ LET st == add_imports_to_entity_result(
                     [results |-> results, import_lists |-> import_lists], "Foo")
       IN  /\ results' = st.results
           /\ import_lists' = st.import_lists
    /\ pc' = "imports_added"
    /\ UNCHANGED <<exc, statVars, run_analysis, todo, cur, scopeVars, commentVars,
                   normVars, pending>>

\* result.scanned_import_dependencies.append(...) of _add_imports_to_result: the
\* file gets one more import
AddImportToResult ==
    /\ pc \in {"entity_created", "imports_added"}
    /\ Len(import_lists[DictGet(results, FileNames[1]).scanned_import_dependencies])
           < 2 * MaxImports
    /\ \E import_name \in ImportNames :
           import_lists' =
               [import_lists EXCEPT
                   ![DictGet(results, FileNames[1]).scanned_import_dependencies] =
                        Append(@, import_name)]
    /\ UNCHANGED <<pc, exc, results, statVars, run_analysis, todo, cur, scopeVars,
                   commentVars, normVars, pending>>

NextImports == AddImportsToEntityResult \/ AddImportToResult

SpecImports == InitImports /\ [][NextImports]_vars

\* scanned_import_dependencies of the record with the key
ImportsOf(res, lists, key) == lists[DictGet(res, key).scanned_import_dependencies]

FileImports == ImportsOf(results, import_lists, FileNames[1])

EntityImports == ImportsOf(results, import_lists, "Foo")

\* C23: once the imports of the file are attached to the entity, an import appended
\* to the file's list leaves the entity's list unchanged.
C23_LaterFileImportsAreNotPropagated ==
    [][(/\ pc = "imports_added"
        /\ Len(ImportsOf(results', import_lists', FileNames[1])) > Len(FileImports))
           => ImportsOf(results', import_lists', "Foo") = EntityImports]_vars

\* the entity has the imports attached, and the file has a later one the entity lacks
C23_Witness ==
    /\ pc = "imports_added"
    /\ EntityImports # <<>>
    /\ \E i \in 1..Len(FileImports) : ~Contains(EntityImports, FileImports[i])

\* C24: the attachment keeps the entity's entries and their order, appends no value
\* the list already contains, and changes nothing when it is applied again.
C24_AttachmentIsIdempotent ==
    LET st == [results |-> results, import_lists |-> import_lists]
        once == add_imports_to_entity_result(st, "Foo")
        twice == add_imports_to_entity_result(once, "Foo")
        after == ImportsOf(once.results, once.import_lists, "Foo")
    IN  /\ Len(after) >= Len(EntityImports)
        /\ SubSeq(after, 1, Len(EntityImports)) = EntityImports
        /\ \A i \in (Len(EntityImports) + 1)..Len(after) :
               \A j \in 1..(i - 1) : after[j] # after[i]
        /\ twice = once

\* the attachment ran on a file list in which a value comes twice
C24_Witness ==
    /\ pc = "imports_added"
    /\ EntityImports # <<>>
    /\ Len(FileImports) > Len(EntityImports)
    /\ \A i \in 1..Len(FileImports) : Contains(EntityImports, FileImports[i])

---------------------------------------------------------------------------
(* Properties of the scans of the VB.NET and C# parsers.                   *)

\* C25: in the body scan the depth goes up only at a token that is a scope keyword
\* and down only at `End` followed by a scope keyword; a token that only contains a
\* keyword leaves it unchanged.
C25_DepthChangesAtKeywordsOnly ==
    [][(pc = "body" /\ scope_level' # scope_level)
         => LET token == all_tokens[iterTokens + 1]
                next_token == following_tokens[iterNextTokens + 1]
            IN  \/ (scope_level' = scope_level + 1 /\ token \in scope_keywords)
                \/ (/\ scope_level' = scope_level - 1
                    /\ token = CLOSE_SCOPE
                    /\ next_token \in scope_keywords)]_vars

\* the matched and the rejected entity headers of the files
RECURSIVE CSHeaderCounts(_)
CSHeaderCounts(files) ==
    IF files = <<>> THEN [hits |-> 0, misses |-> 0]
    ELSE LET scopes == BraceScopes(CSScopeWords(Head(files).scanned_tokens), 1)
             later == CSHeaderCounts(Tail(files))
         IN  [hits |-> scopes.hits + later.hits, misses |-> scopes.misses + later.misses]

\* C26: C# entity generation adds the number of matched headers of the files of the
\* analysis to its hits and the number of rejected headers to its misses.
C26_HeadersAreCountedOnce ==
    [][(pc = "cs_file_imports")
         => LET counts == CSHeaderCounts(
                              SelectSeq(results, LAMBDA v : v.analysis = run_analysis
                                                              /\ v.kind = "file"))
            IN  /\ hits'[run_analysis] = hits[run_analysis] + counts.hits
                /\ misses'[run_analysis] = misses[run_analysis] + counts.misses]_vars

\* the parent an entity declares itself: the target of an `Inherits` that is the
\* first statement after the entity's header
DeclaredParent(tokens) ==
    LET body == SkipNewlines(SubSeq(tokens, 3, Len(tokens)))
    IN  IF Len(body) >= 2 /\ body[1] = INHERITANCE THEN <<body[2]>> ELSE <<>>

\* C28: a VB.NET entity has the parent of its own `Inherits` clause as its only
\* inheritance dependency, and none when its declaration has no such clause, also
\* when an entity nested in its body has one.
C28_InheritsOnlyOfOwnDeclaration ==
    \A i \in 1..Len(results) :
        (/\ results[i].kind = "entity"
         /\ results[i].scanned_tokens # <<>>
         /\ results[i].scanned_tokens[1] \in entity_keywords)
            => results[i].scanned_inheritance_dependencies
                   = DeclaredParent(results[i].scanned_tokens)

\* the candidates of a word list from position i on: the entity keywords that do not
\* come right after `End`
RECURSIVE Candidates(_, _)
Candidates(list_of_words, i) ==
    IF i > Len(list_of_words) THEN 0
    ELSE (IF /\ list_of_words[i] \in entity_keywords
             /\ (i = 1 \/ list_of_words[i - 1] # CLOSE_SCOPE)
          THEN 1 ELSE 0)
             + Candidates(list_of_words, i + 1)

\* C29: when the scope extraction of a file returns, hits plus misses have grown by
\* the number of candidates, and the hits by the number of records returned.
C29_EveryCandidateCountsOnce ==
    pc = "scopes_returned"
        => /\ hits[run_analysis] + misses[run_analysis] = Candidates(words, 1)
           /\ Len(created_entity_results) = hits[run_analysis]

\* C30: the scope extraction and the registration of the entities of a file leave
\* the tokens, the module name and the imports of every file record unchanged.
C30_FileRecordIsLeftUnchanged ==
    [][(pc \in {"next_file", "scan", "body", "scanned", "scopes_returned"})
         => \A i \in 1..Len(results) :
                results[i].kind = "file"
                    => (/\ i <= Len(results')
                        /\ results'[i].key = results[i].key
                        /\ results'[i].kind = "file"
                        /\ results'[i].scanned_tokens = results[i].scanned_tokens
                        /\ results'[i].module_name = results[i].module_name
                        /\ results'[i].scanned_import_dependencies
                               = results[i].scanned_import_dependencies)]_vars

\* an entity with imports of its own is registered beside its file
C30_Witness ==
    /\ pc = "next_file"
    /\ cur # ""
    /\ \E i \in 1..Len(results) :
           /\ results[i].kind = "entity"
           /\ results[i].parent_file_result = cur
           /\ results[i].scanned_tokens # <<>>
           /\ results[i].scanned_import_dependencies # <<>>
           /\ CurFile.scanned_import_dependencies # <<>>

---------------------------------------------------------------------------
(* The CSS parser (cssparser.py): the file record and its @import scan.    *)
(* The tokens of a CSS file are kept as sequences of characters.           *)

\* a CSS file is made of at most MaxCSSStatements statements
MaxCSSStatements == 2

\* CSSParsingKeyword.IMPORT
CSS_IMPORT == <<"@", "i", "m", "p", "o", "r", "t">>

\* s.lstrip(chars)
RECURSIVE LStrip(_, _)
LStrip(s, chars) ==
    IF s # <<>> /\ Head(s) \in chars THEN LStrip(Tail(s), chars) ELSE s

\* s.rstrip(chars)
RECURSIVE RStrip(_, _)
RStrip(s, chars) ==
    IF s # <<>> /\ s[Len(s)] \in chars
    THEN RStrip(SubSeq(s, 1, Len(s) - 1), chars)
    ELSE s

\* s.strip(chars); s.strip() takes the white space
Strip(s, chars) == RStrip(LStrip(s, chars), chars)

\* s.split(';')[0]
RECURSIVE BeforeSemicolon(_)
BeforeSemicolon(s) ==
    IF s = <<>> \/ Head(s) = ";" THEN <<>>
    ELSE <<Head(s)>> \o BeforeSemicolon(Tail(s))

\* lines 98-99: cleaned_import of a token that starts with @import
CleanedImport(token) ==
    LET import_statement ==
            Strip(SubSeq(token, Len(CSS_IMPORT) + 1, Len(token)), {" ", "\n"})
    IN  Strip(Strip(Strip(BeforeSemicolon(import_statement), {" ", "\n"}), {"'"}),
              {"\""})

\* the loop of lines 96-100 over the tokens of one file: the entries appended
RECURSIVE CSSImportScan(_)
CSSImportScan(tokens) ==
    IF tokens = <<>> THEN <<>>
    ELSE (IF StartsWith(Head(tokens), CSS_IMPORT)
          THEN <<CleanedImport(Head(tokens))>>
          ELSE <<>>)
             \o CSSImportScan(Tail(tokens))

\* the statements the CSS files of the model are made of: @import with single
\* quotes, with double quotes and without a space, a rule, a declaration, a newline
CSSStatements ==
    {<<"@", "i", "m", "p", "o", "r", "t", " ", "'", "a", "'", ";">>,
     <<"@", "i", "m", "p", "o", "r", "t", " ", "\"", "b", "\"", ";">>,
     <<"@", "i", "m", "p", "o", "r", "t", "'", "a", "'", ";">>,
     <<"a", "{", "}">>,
     <<"a", ":", "b", ";">>,
     <<"\n">>}

\* the driver has one CSS file to hand over
InitCSS ==
    /\ pc = "css_file"
    /\ \E n \in 0..MaxCSSStatements : \E ss \in [1..n -> CSSStatements] :
           file_content = Concat(ss)
    /\ mapping = "css"
    /\ first_tokens = <<>>
    /\ second_tokens = <<>>
    /\ IdlePipeline
    /\ IdleComment

\* CSSParser.generate_file_result_from_analysis (lines 66-87)
CSSGenerateFileResult ==
    /\ pc = "css_file"
    /\ results' = DictSet(results, FileNames[1],
                          FileResult(FileNames[1], run_analysis,
                                     preprocess_file_content_and_generate_token_list_by_mapping(
                                         file_content, TokenMappings(mapping))))
    /\ pc' = "css_file_results"
    /\ UNCHANGED <<exc, statVars, run_analysis, todo, cur, scopeVars, commentVars,
                   normVars, pending, import_lists>>

\* CSSParser.after_generated_file_results (lines 89-101)
CSSAfterGeneratedFileResults ==
    /\ pc = "css_file_results"
    /\ results' = [i \in 1..Len(results) |->
                      IF results[i].analysis = run_analysis /\ results[i].kind = "file"
                      THEN [results[i] EXCEPT !.scanned_import_dependencies =
                                @ \o CSSImportScan(results[i].scanned_tokens)]
                      ELSE results[i]]
    /\ pc' = "css_file_imports"
    /\ UNCHANGED <<exc, statVars, run_analysis, todo, cur, scopeVars, commentVars,
                   normVars, pending, import_lists>>

NextCSS == CSSGenerateFileResult \/ CSSAfterGeneratedFileResults

SpecCSS == InitCSS /\ [][NextCSS]_vars

\* the file names the @import statements of a text refer to, in source order: what
\* stands between `@import` and the next `;`, without white space and quotes
RECURSIVE ReferencedFiles(_)
ReferencedFiles(text) ==
    IF text = <<>> THEN <<>>
    ELSE IF StartsWith(text, CSS_IMPORT)
    THEN LET rest == SubSeq(text, Len(CSS_IMPORT) + 1, Len(text))
         IN  <<Strip(BeforeSemicolon(rest), {" ", "\n", "'", "\""})>>
                 \o ReferencedFiles(rest)
    ELSE ReferencedFiles(Tail(text))

\* C27: after the @import scan the imports of a CSS file are the file names its
\* @import statements refer to, without quotes and `;`, in source order, and none
\* of them is the empty string.
C27_ImportsAreTheReferencedFiles ==
    pc = "css_file_imports"
        => LET imports == DictGet(results, FileNames[1]).scanned_import_dependencies
           IN  /\ imports = ReferencedFiles(file_content)
               /\ \A i \in 1..Len(imports) : imports[i] # <<>>

====
